---- MODULE Spec2Model ----
(***************************************************************************)
(* KNeighborsClassifier (algorithms/Classification/KNeighborsClassifier)   *)
(* as a state machine: one classifier object, its configuration, its       *)
(* training data, and the calls fit / predict / evaluate made on it.       *)
(*                                                                         *)
(* Conventions.  Arrays are sequences, so the 0-based index i of the code  *)
(* is the index i+1 here.  Feature vectors have two integer coordinates.   *)
(* A distance is kept exact: np.sqrt(s) is the record with root = TRUE and *)
(* num = s, c / n is the record with num = c and den = n.                  *)
(***************************************************************************)
EXTENDS Naturals, Sequences, FiniteSets

VARIABLES
    k, dist_metric,      \* self.k, self.dist_metric
    tieRank,             \* the build's order among equal keys in np.argsort
    fitted,              \* the object has the attributes X_train, y_train
    X_train, y_train,    \* self.X_train, self.y_train
    lastOp,              \* the most recent call: "new", "fit", "predict", "evaluate"
    fitX, fitY,          \* the arguments of the most recent fit
    qX, qY,              \* the arguments of the most recent predict / evaluate
    lastOut,             \* what the most recent call returned or raised
    lastPred,            \* what the most recent run of predict returned or raised
    lastDistances,       \* per query, the distances array of that run
    lastNearest,         \* per query, the k_nearest array of that run
    refit,               \* session log: the most recent fit replaced other data
    hasFirst, firstQ, firstPred, \* session log: the first run of predict since the last fit
    later                \* session log: predict has run again since that first run

\* The call trace (lastOp .. lastNearest) describes the most recent call only.
\* The session log is left alone by Spec; SpecRefit keeps refit and
\* SpecSession keeps the first run.
session == <<refit, hasFirst, firstQ, firstPred, later>>

vars == <<k, dist_metric, tieRank, fitted, X_train, y_train, lastOp, fitX, fitY,
          qX, qY, lastOut, lastPred, lastDistances, lastNearest, session>>

----------------------------------------------------------------------------
\* Bounds of the model.
MaxCoord   == 1     \* coordinates are 0..MaxCoord
MaxLabel   == 1     \* labels are 0..MaxLabel
MaxTrain   == 2     \* fit receives at most MaxTrain features / labels
MaxQueries == 1     \* predict / evaluate receive at most MaxQueries queries
MaxK       == 3     \* k is 1..MaxK

\* The feature vectors callers pass: the points (a, b) of the grid with a <= b.
Coords         == 0..MaxCoord
FeatureVectors == {v \in Coords \X Coords : v[1] <= v[2]}
Labels         == 0..MaxLabel

SeqsUpTo(S, n) == UNION {[1..m -> S] : m \in 0..n}

\* The names _calculate_distance_ tests for, and the names a caller may pass:
\* those and one more.
RecognizedMetrics == {"euclidean", "manhattan", "chebychev", "hemming"}
MetricNames       == RecognizedMetrics \cup {"minkowski"}

\* The orders among equal keys a build's np.argsort may use: a priority among
\* the indices (the identity is the index-stable order).
TieRanks == {r \in [1..MaxTrain -> 1..MaxTrain] : \A i, j \in 1..MaxTrain : r[i] = r[j] => i = j}

----------------------------------------------------------------------------
\* Values.
Abs(a, b) == IF a >= b THEN a - b ELSE b - a

RECURSIVE SumSeq(_)
SumSeq(s) == IF s = <<>> THEN 0 ELSE Head(s) + SumSeq(Tail(s))

MaxOf(S) == CHOOSE m \in S : \A n \in S : n <= m
MinOf(S) == CHOOSE m \in S : \A n \in S : m <= n

\* A distance value: a scalar num/den (under a square root when root), the
\* elementwise array vec, or None.
Scalar(n, d, r) == [kind |-> "scalar", num |-> n, den |-> d, root |-> r, vec |-> <<>>]
Vector(v)       == [kind |-> "vector", num |-> 0, den |-> 1, root |-> FALSE, vec |-> v]
NoneValue       == [kind |-> "none", num |-> 0, den |-> 1, root |-> FALSE, vec |-> <<>>]

\* What a call returned or raised.
NoOut          == [kind |-> "none", err |-> "", labels |-> <<>>, num |-> 0, den |-> 0]
Raise(e)       == [kind |-> "error", err |-> e, labels |-> <<>>, num |-> 0, den |-> 0]
ReturnList(s)  == [kind |-> "labels", err |-> "", labels |-> s, num |-> 0, den |-> 0]
ReturnRatio(n, d) ==
    \* a numpy integer divided by len(y): 0/0 is nan (a warning, not an exception)
    IF d = 0 THEN [kind |-> "nan", err |-> "", labels |-> <<>>, num |-> n, den |-> d]
    ELSE [kind |-> "accuracy", err |-> "", labels |-> <<>>, num |-> n, den |-> d]

----------------------------------------------------------------------------
\* KNeighborsClassifier.__init__: stores both arguments, checks neither.
KNeighborsClassifier(k0, metric0) == [k |-> k0, dist_metric |-> metric0]

\* The object the methods read.
Self == [k |-> k, dist_metric |-> dist_metric, tieRank |-> tieRank,
         fitted |-> fitted, X_train |-> X_train, y_train |-> y_train]

\* np.bincount(arr).argmax(): the counts of 0..max(arr), then the first index
\* holding the largest count.
bincount(arr) ==
    [v \in 0..MaxOf({arr[i] : i \in 1..Len(arr)}) |->
        Cardinality({i \in 1..Len(arr) : arr[i] = v})]

\* argmax taking the last index of the largest count instead of the first.
argmax_last(counts) ==
    CHOOSE v \in DOMAIN counts :
        /\ \A w \in DOMAIN counts : counts[w] <= counts[v]
        /\ \A w \in DOMAIN counts : w > v => counts[w] # counts[v]

argmax(counts) ==
    CHOOSE v \in DOMAIN counts :
        /\ \A w \in DOMAIN counts : counts[w] <= counts[v]
        /\ \A w \in DOMAIN counts : w < v => counts[w] # counts[v]

_most_common_(arr) == argmax(bincount(arr))

\* _calculate_distance_ on points = [a, b]: the if / elif chain, which has no
\* else branch (an unmatched name returns None).
_calculate_distance_(metric, a, b) ==
    IF metric = "euclidean" THEN
        Scalar(SumSeq([i \in 1..Len(a) |-> Abs(a[i], b[i]) * Abs(a[i], b[i])]), 1, TRUE)
    ELSE IF metric = "manhattan" THEN
        Vector([i \in 1..Len(a) |-> Abs(a[i], b[i])])
    ELSE IF metric = "chebychev" THEN
        Scalar(MaxOf({Abs(a[i], b[i]) : i \in 1..Len(a)}), 1, FALSE)
    ELSE IF metric = "hemming" THEN
        Scalar(Cardinality({i \in 1..Len(a) : a[i] # b[i]}), Len(a), FALSE)
    ELSE NoneValue

\* Order of two scalar distances of one metric.
Less(d1, d2) == d1.num * d2.den < d2.num * d1.den

\* np.argsort(distances) on a 1-D array of scalars, default kind (quicksort,
\* not stable): ascending keys, equal keys in the build's order.
argsort(distances, rank) ==
    LET n == Len(distances)
        Before(i, j) == \/ Less(distances[i], distances[j])
                        \/ /\ ~Less(distances[j], distances[i])
                           /\ rank[i] < rank[j]
        pos(i) == 1 + Cardinality({j \in 1..n : Before(j, i)})
    IN  [p \in 1..n |-> CHOOSE i \in 1..n : pos(i) = p]

\* A slice that always has n elements, repeating the last one past the end.
SlicePadded(s, n) == [i \in 1..n |-> s[IF i < Len(s) THEN i ELSE Len(s)]]

\* [:self.k]: a slice stops at the end of the array.
Slice(s, n) == SubSeq(s, 1, IF n < Len(s) THEN n ELSE Len(s))

\* The body of predict's loop for one query x.  err = "" when an element was
\* appended to predictions.
PredictOne(self, x) ==
    LET distances == [i \in 1..Len(self.X_train) |->
                        _calculate_distance_(self.dist_metric, x, self.X_train[i])]
        n == Len(distances)
        NoLabel(e, near) == [err |-> e, label |-> 0, distances |-> distances, nearest |-> near]
    IN  IF n = 0 THEN
            \* empty distances, empty k_nearest, empty y_sorted: argmax of an empty array
            NoLabel("ValueError", <<>>)
        ELSE IF distances[1].kind = "vector" THEN
            \* 2-D distances: argsort orders each row, so k_nearest holds the column
            \* indices 0..n_features-1; they index y_train, and the 2-D y_sorted is
            \* refused by np.bincount
            IF Len(self.y_train) < Len(x) THEN NoLabel("IndexError", <<>>)
            ELSE NoLabel("ValueError", <<>>)
        ELSE IF distances[1].kind = "none" /\ n > 1 THEN
            \* an object array of None: argsort compares None with None
            NoLabel("TypeError", <<>>)
        ELSE
            LET order == IF distances[1].kind = "none" THEN <<1>>
                         ELSE argsort(distances, self.tieRank)
                k_nearest == Slice(order, self.k)
            IN  IF \E j \in 1..Len(k_nearest) : k_nearest[j] > Len(self.y_train) THEN
                    NoLabel("IndexError", k_nearest)
                ELSE
                    LET y_sorted == [j \in 1..Len(k_nearest) |-> self.y_train[k_nearest[j]]]
                    IN  [err |-> "", label |-> _most_common_(y_sorted),
                         distances |-> distances, nearest |-> k_nearest]

\* One run of predict(X): the loop, stopped by the first exception.  ran is the
\* number of loop bodies entered.
PredictRun(self, X) ==
    IF X = <<>> THEN [out |-> ReturnList(<<>>), ran |-> 0, per |-> <<>>]
    ELSE IF ~self.fitted THEN
        \* self.X_train does not exist
        [out |-> Raise("AttributeError"), ran |-> 0, per |-> <<>>]
    ELSE
        LET per == [i \in 1..Len(X) |-> PredictOne(self, X[i])]
            bad == {i \in 1..Len(X) : per[i].err # ""}
        IN  IF bad = {} THEN
                [out |-> ReturnList([i \in 1..Len(X) |-> per[i].label]),
                 ran |-> Len(X), per |-> per]
            ELSE
                [out |-> Raise(per[MinOf(bad)].err), ran |-> MinOf(bad), per |-> per]

\* np.sum(self.predict(X) == y) / len(y), for len(X) = len(y).
EvaluateOut(pred, y) ==
    IF pred.kind = "error" THEN pred
    ELSE ReturnRatio(Cardinality({i \in 1..Len(y) : pred.labels[i] = y[i]}), Len(y))

----------------------------------------------------------------------------
\* The state after model = KNeighborsClassifier(k0, metric0).
Init ==
    /\ \E k0 \in 1..MaxK, metric0 \in MetricNames :
          /\ k = KNeighborsClassifier(k0, metric0).k
          /\ dist_metric = KNeighborsClassifier(k0, metric0).dist_metric
    /\ tieRank \in TieRanks
    /\ fitted = FALSE
    /\ X_train = <<>>
    /\ y_train = <<>>
    /\ lastOp = "new"
    /\ fitX = <<>>
    /\ fitY = <<>>
    /\ qX = <<>>
    /\ qY = <<>>
    /\ lastOut = NoOut
    /\ lastPred = NoOut
    /\ lastDistances = <<>>
    /\ lastNearest = <<>>
    /\ refit = FALSE
    /\ hasFirst = FALSE
    /\ firstQ = <<>>
    /\ firstPred = NoOut
    /\ later = FALSE

\* fit that keeps the data of the first fit.
fit_keeping(X, y) ==
    /\ X_train' = IF fitted THEN X_train ELSE X
    /\ y_train' = IF fitted THEN y_train ELSE y
    /\ fitted' = TRUE
    /\ lastOp' = "fit"
    /\ fitX' = X
    /\ fitY' = y
    /\ lastOut' = NoOut
    /\ qX' = <<>>
    /\ qY' = <<>>
    /\ lastPred' = NoOut
    /\ lastDistances' = <<>>
    /\ lastNearest' = <<>>
    /\ UNCHANGED <<k, dist_metric, tieRank>>

\* fit(X, y): two assignments, no check, returns None.
fit(X, y) ==
    /\ X_train' = X
    /\ y_train' = y
    /\ fitted' = TRUE
    /\ lastOp' = "fit"
    /\ fitX' = X
    /\ fitY' = y
    /\ lastOut' = NoOut
    /\ qX' = <<>>
    /\ qY' = <<>>
    /\ lastPred' = NoOut
    /\ lastDistances' = <<>>
    /\ lastNearest' = <<>>
    /\ UNCHANGED <<k, dist_metric, tieRank>>

\* The call trace of one run of predict(X).
TraceRun(run, X) ==
    /\ qX' = X
    /\ lastPred' = run.out
    /\ lastDistances' = [i \in 1..run.ran |-> run.per[i].distances]
    /\ lastNearest' = [i \in 1..run.ran |-> run.per[i].nearest]

\* predict that consumes the training point it looked at first.
predict_dropping(X) ==
    LET run == PredictRun(Self, X)
    IN  /\ TraceRun(run, X)
        /\ lastOp' = "predict"
        /\ qY' = <<>>
        /\ lastOut' = run.out
        /\ X_train' = IF X_train = <<>> THEN <<>> ELSE Tail(X_train)
        /\ y_train' = IF y_train = <<>> THEN <<>> ELSE Tail(y_train)
        /\ UNCHANGED <<k, dist_metric, tieRank, fitted, fitX, fitY>>

\* predict(X): reads self, writes nothing to it.
predict(X) ==
    LET run == PredictRun(Self, X)
    IN  /\ TraceRun(run, X)
        /\ lastOp' = "predict"
        /\ qY' = <<>>
        /\ lastOut' = run.out
        /\ UNCHANGED <<k, dist_metric, tieRank, fitted, X_train, y_train, fitX, fitY>>

\* evaluate(X, y), called with as many labels as queries.
evaluate(X, y) ==
    LET run == PredictRun(Self, X)
    IN  /\ Len(X) = Len(y)
        /\ TraceRun(run, X)
        /\ lastOp' = "evaluate"
        /\ qY' = y
        /\ lastOut' = EvaluateOut(run.out, y)
        /\ UNCHANGED <<k, dist_metric, tieRank, fitted, X_train, y_train, fitX, fitY>>

TrainingFeatures == SeqsUpTo(FeatureVectors, MaxTrain)
TrainingLabels   == SeqsUpTo(Labels, MaxTrain)
Queries          == SeqsUpTo(FeatureVectors, MaxQueries)
TrueLabels       == SeqsUpTo(Labels, MaxQueries)

Next ==
    \/ \E X \in TrainingFeatures, y \in TrainingLabels : fit(X, y) /\ UNCHANGED session
    \/ \E X \in Queries : predict(X) /\ UNCHANGED session
    \/ \E X \in Queries, y \in TrueLabels : evaluate(X, y) /\ UNCHANGED session

Spec == Init /\ [][Next]_vars

----------------------------------------------------------------------------
\* The same calls, with a log of whether a fit replaced other data.
NoteFit(X, y) ==
    /\ refit' = (fitted /\ (X_train # X \/ y_train # y))
    /\ UNCHANGED <<hasFirst, firstQ, firstPred, later>>

NextRefit ==
    \/ \E X \in TrainingFeatures, y \in TrainingLabels : fit(X, y) /\ NoteFit(X, y)
    \/ \E X \in Queries : predict(X) /\ UNCHANGED session
    \/ \E X \in Queries, y \in TrueLabels : evaluate(X, y) /\ UNCHANGED session

SpecRefit == Init /\ [][NextRefit]_vars

----------------------------------------------------------------------------
\* The same calls on datasets that have one label per feature vector, with a
\* log of the first run of predict since the last fit.
ForgetRuns ==
    /\ hasFirst' = FALSE
    /\ firstQ' = <<>>
    /\ firstPred' = NoOut
    /\ later' = FALSE
    /\ UNCHANGED refit

NoteRun(X) ==
    /\ UNCHANGED refit
    /\ IF hasFirst THEN /\ later' = TRUE
                         /\ UNCHANGED <<hasFirst, firstQ, firstPred>>
       ELSE /\ hasFirst' = TRUE
            /\ firstQ' = X
            /\ firstPred' = lastPred'
            /\ later' = FALSE

NextSession ==
    \/ \E X \in TrainingFeatures, y \in TrainingLabels :
          Len(X) = Len(y) /\ fit(X, y) /\ ForgetRuns
    \/ \E X \in Queries : predict(X) /\ NoteRun(X)
    \/ \E X \in Queries, y \in TrueLabels : evaluate(X, y) /\ NoteRun(X)

SpecSession == Init /\ [][NextSession]_vars

----------------------------------------------------------------------------
\* Properties.

Count(v, arr) == Cardinality({j \in 1..Len(arr) : arr[j] = v})
Elems(arr)    == {arr[j] : j \in 1..Len(arr)}
RanPredict    == lastOp \in {"predict", "evaluate"}

\* A training set as the data model has it: one label per feature vector.
WellFormed == Len(X_train) = Len(y_train)

\* Equal feature vectors of the training set carry equal labels.
Unambiguous ==
    \A a, b \in 1..Len(X_train) :
        (a <= Len(y_train) /\ b <= Len(y_train) /\ X_train[a] = X_train[b])
            => y_train[a] = y_train[b]

\* C1: a predict or evaluate made before the first fit fails (any exception is
\* accepted as the NotFitted error) and returns no labels and no accuracy.
C1_UnfittedCallFails ==
    (~fitted /\ RanPredict) => lastOut.kind = "error"

\* C2: after any sequence of fits and other calls, predict(Q) returns what a
\* fresh classifier of the same k and metric returns after the single call
\* fit(Dn), Dn being the arguments of the most recent fit.
C2_RefitReplaces ==
    (fitted /\ lastOp = "predict") =>
        lastOut = PredictRun([k |-> k, dist_metric |-> dist_metric, tieRank |-> tieRank,
                              fitted |-> TRUE, X_train |-> fitX, y_train |-> fitY], qX).out

C2_Witness ==
    /\ refit
    /\ lastOp = "predict"
    /\ qX # <<>>
    /\ lastOut.kind = "labels"

\* C3: fit(features, labels) with len(features) # len(labels) or with no labels
\* fails with InvalidInput.
C3_FitRejectsInvalid ==
    (lastOp = "fit" /\ (Len(fitX) # Len(fitY) \/ fitY = <<>>)) =>
        lastOut = Raise("InvalidInput")

\* C4: a classifier with a metric name outside the recognised ones is never
\* constructed, so no distance computed inside predict is None.
C4_NoUnknownMetric ==
    (RanPredict /\ WellFormed) =>
        \A i \in DOMAIN lastDistances : \A j \in DOMAIN lastDistances[i] :
            dist_metric \in RecognizedMetrics /\ lastDistances[i][j].kind # "none"

\* C5: every label predict returns has the highest count among the labels of
\* the k selected neighbours of its query, and is the smallest label with that
\* count.
C5_MajoritySmallest ==
    (lastOp = "predict" /\ lastOut.kind = "labels") =>
        \A i \in 1..Len(qX) :
            LET sel == [j \in 1..Len(lastNearest[i]) |-> y_train[lastNearest[i][j]]]
                l   == lastOut.labels[i]
            IN  \A m \in Elems(sel) :
                    \/ Count(m, sel) < Count(l, sel)
                    \/ Count(m, sel) = Count(l, sel) /\ l <= m

\* a vote tied between two labels, the larger label belonging to the nearer neighbour
C5_Witness ==
    /\ lastOp = "predict"
    /\ lastOut.kind = "labels"
    /\ Len(qX) >= 1
    /\ Len(lastNearest[1]) = 2
    /\ y_train[lastNearest[1][1]] = 1
    /\ y_train[lastNearest[1][2]] = 0
    /\ lastOut.labels[1] = 0

\* Training point a comes before b in the order by (distance, index).
ByDistanceThenIndex(d, a, b) ==
    \/ Less(d[a], d[b])
    \/ ~Less(d[b], d[a]) /\ a < b

\* C6: the neighbours selected for a query are the first k training points in
\* the order by (distance to the query, training-set index), on every
\* well-formed training set.
C6_LowerIndexWins ==
    (RanPredict /\ WellFormed) =>
        \A i \in DOMAIN lastNearest :
            LET d == lastDistances[i]
                s == lastNearest[i]
            IN  s # <<>> =>
                  /\ \A p, q \in 1..Len(s) : p < q => ByDistanceThenIndex(d, s[p], s[q])
                  /\ \A p \in 1..Len(s) : \A j \in (1..Len(d)) \ Elems(s) :
                        ByDistanceThenIndex(d, s[p], j)

\* C7: with k = 1 and a non-empty training set, evaluate(X, y) is 1.0 when every
\* query is a training point and y holds that point's training label.  Stated
\* for the training sets on which the claim is unambiguous (well-formed, equal
\* points equally labelled) and for at least one query.
C7_SelfMatchIsPerfect ==
    ( /\ lastOp = "evaluate"
      /\ k = 1
      /\ X_train # <<>>
      /\ WellFormed
      /\ Unambiguous
      /\ qX # <<>>
      /\ \A i \in 1..Len(qX) :
            \E j \in 1..Len(X_train) :
                j <= Len(y_train) /\ X_train[j] = qX[i] /\ y_train[j] = qY[i] )
    => (lastOut.kind = "accuracy" /\ lastOut.num = lastOut.den)

\* C8: the manhattan distance of a query and a training point is the scalar
\* sum of the absolute coordinate differences.
C8_ManhattanIsScalarSum ==
    (dist_metric = "manhattan" /\ RanPredict /\ WellFormed) =>
        \A i \in DOMAIN lastDistances : \A j \in DOMAIN lastDistances[i] :
            lastDistances[i][j] =
                Scalar(SumSeq([c \in 1..Len(qX[i]) |-> Abs(qX[i][c], X_train[j][c])]), 1, FALSE)

C10_RepeatablePredict ==
    /\ []((hasFirst /\ RanPredict /\ qX = firstQ) => lastPred = firstPred)
    /\ [][lastOp' \in {"predict", "evaluate"} =>
            UNCHANGED <<k, dist_metric, fitted, X_train, y_train>>]_vars

C10_Witness ==
    /\ later
    /\ lastOp = "predict"
    /\ qX = firstQ
    /\ qX # <<>>
    /\ lastPred.kind = "labels"

====
